---- MODULE Spec2Model ----
(***************************************************************************)
(* A model of collect_reddit.py: the paginated fetcher                     *)
(* (fetch_subreddit_posts), the per-topic collection and id de-duplication *)
(* (collect_for_movie), the relevance filter (build_rows and its helpers), *)
(* the final aggregation and the coverage summary (main, summarize_rates). *)
(*                                                                         *)
(* A string is a sequence of one-character strings; a character outside    *)
(* ASCII is written by its code point ("U+00E9").  The title and the body  *)
(* of a raw post are kept as sequences of pieces, and Chars gives the      *)
(* string they spell.  A raw post is a function from the keys it has to    *)
(* their values, so that dict.get(key, default) is modelled by Get.  A     *)
(* created_utc is a number with a possible half-second fraction,           *)
(* Num(floor, half), because the source converts it with int().            *)
(***************************************************************************)
EXTENDS Integers, Sequences, FiniteSets, TLC

(***************************************************************************)
(* Bounds of the model.                                                    *)
(***************************************************************************)
\* pieces a generated title is made of
MaxWords == 2
\* page requests one fetch may issue before the source runs out of results
MaxPages == 2
\* records on one page of results
MaxPageLen == 2
\* records the source returns over a whole run
MaxFetched == 2
\* rows of one topic in a generated dataset
MaxCount == 25

(***************************************************************************)
(* Program constants.                                                      *)
(***************************************************************************)
SUBREDDITS == <<"movies", "flicks", "truefilm">>
MIN_TEXT_LEN == 15
FULL_TSV == "reddit_movie_posts_full.tsv"
COVERAGE_SUMMARY == "coverage_summary.csv"
START_UTC == 1688083200
SECONDS_PER_DAY == 86400

(***************************************************************************)
(* Characters and strings.                                                 *)
(***************************************************************************)
UpperCase == <<"A","B","C","D","E","F","G","H","I","J","K","L","M",
               "N","O","P","Q","R","S","T","U","V","W","X","Y","Z">>
LowerCase == <<"a","b","c","d","e","f","g","h","i","j","k","l","m",
               "n","o","p","q","r","s","t","u","v","w","x","y","z">>
Digits == {"0","1","2","3","4","5","6","7","8","9"}
\* U+00E9 is a letter (e acute), U+2014 a dash: neither is ASCII
NonAsciiLetters == {"U+00E9"}
NonAscii == NonAsciiLetters \cup {"U+2014"}
WhiteSpace == {" ", "\t", "\n"}

Max(a, b) == IF a >= b THEN a ELSE b

\* ord(ch) < 128
IsAscii(ch) == ch \notin NonAscii

UpperLetters == {UpperCase[i] : i \in 1..26}
LowerLetters == {LowerCase[i] : i \in 1..26}

\* the class \w of a str pattern: letters (of any script), digits, underscore
WordChars == UpperLetters \cup LowerLetters \cup Digits \cup {"_"}
                 \cup NonAsciiLetters
IsWordChar(ch) == ch \in WordChars

LowerOf == [ch \in UpperLetters |->
               LowerCase[CHOOSE i \in 1..26 : UpperCase[i] = ch]]
LowerChar(ch) == IF ch \in UpperLetters THEN LowerOf[ch] ELSE ch

\* str.lower()
Lower(s) == [i \in 1..Len(s) |-> LowerChar(s[i])]

RECURSIVE LStrip(_)
LStrip(s) == IF s # <<>> /\ Head(s) \in WhiteSpace THEN LStrip(Tail(s)) ELSE s

RECURSIVE RStrip(_)
RStrip(s) ==
    IF s # <<>> /\ s[Len(s)] \in WhiteSpace
    THEN RStrip(SubSeq(s, 1, Len(s) - 1))
    ELSE s

\* str.strip()
Strip(s) == RStrip(LStrip(s))

\* sub in s
Contains(s, sub) ==
    \E i \in 1..(Len(s) - Len(sub) + 1) : SubSeq(s, i, i + Len(sub) - 1) = sub

(***************************************************************************)
(* re.search of a pattern \b(alt1|alt2|...)\b.  An alternative is a        *)
(* sequence of literal characters in which SpaceStar stands for \s*.       *)
(***************************************************************************)
SpaceStar == "\\s*"

\* the positions where the whitespace run that starts at i can be left
RECURSIVE SpaceEnds(_, _)
SpaceEnds(s, i) ==
    IF i <= Len(s) /\ s[i] \in WhiteSpace
    THEN {i} \cup SpaceEnds(s, i + 1)
    ELSE {i}

\* the positions just after a match of pat that starts at position i
RECURSIVE MatchEnds(_, _, _)
MatchEnds(s, i, pat) ==
    IF pat = <<>> THEN {i}
    ELSE IF Head(pat) = SpaceStar
         THEN UNION {MatchEnds(s, k, Tail(pat)) : k \in SpaceEnds(s, i)}
         ELSE IF i <= Len(s) /\ s[i] = Head(pat)
              THEN MatchEnds(s, i + 1, Tail(pat))
              ELSE {}

\* \b between the characters i-1 and i
WordBoundary(s, i) ==
    LET isW(k) == k \in 1..Len(s) /\ IsWordChar(s[k])
    IN  isW(i - 1) # isW(i)

ReSearch(alts, s) ==
    \E i \in 1..(Len(s) + 1) :
        /\ WordBoundary(s, i)
        /\ \E a \in alts : \E j \in MatchEnds(s, i, a) : WordBoundary(s, j)

(***************************************************************************)
(* The topic registry.                                                     *)
(***************************************************************************)
None == {}

w_oppenheimer == <<"o","p","p","e","n","h","e","i","m","e","r">>
w_barbie == <<"b","a","r","b","i","e">>
w_mission_impossible ==
    <<"m","i","s","s","i","o","n"," ","i","m","p","o","s","s","i","b","l","e">>
w_dead_reckoning == <<"d","e","a","d"," ","r","e","c","k","o","n","i","n","g">>
w_mi7 == <<"m","i","7">>
w_sound_of_freedom ==
    <<"s","o","u","n","d"," ","o","f"," ","f","r","e","e","d","o","m">>
w_dial_of_destiny ==
    <<"d","i","a","l"," ","o","f"," ","d","e","s","t","i","n","y">>
w_indiana_jones == <<"i","n","d","i","a","n","a"," ","j","o","n","e","s">>

\* \b(doll|toy|birthday|ken doll|barbiecore)\b
BarbieNegatives ==
    { <<"d","o","l","l">>,
      <<"t","o","y">>,
      <<"b","i","r","t","h","d","a","y">>,
      <<"k","e","n"," ","d","o","l","l">>,
      <<"b","a","r","b","i","e","c","o","r","e">> }

\* the keys of MOVIES, in the order the dict is written
MovieKeys ==
    <<"oppenheimer", "barbie", "mi7", "sound_of_freedom", "indiana_jones">>

MOVIES ==
    [k \in {MovieKeys[i] : i \in 1..Len(MovieKeys)} |->
        [start_utc |-> START_UTC,
         title_tokens |->
            CASE k = "oppenheimer" -> <<w_oppenheimer>>
              [] k = "barbie" -> <<w_barbie>>
              [] k = "mi7" -> <<w_mission_impossible, w_dead_reckoning, w_mi7>>
              [] k = "sound_of_freedom" -> <<w_sound_of_freedom>>
              [] k = "indiana_jones" -> <<w_dial_of_destiny, w_indiana_jones>>,
         negative_title_regex |->
            IF k = "barbie" THEN BarbieNegatives ELSE None]]

\* the alternatives of the pattern of has_film_cue
FilmCues ==
    { <<"f","i","l","m">>,
      <<"m","o","v","i","e">>,
      <<"t","r","a","i","l","e","r">>,
      <<"r","e","v","i","e","w">>,
      <<"b","o","x",SpaceStar,"o","f","f","i","c","e">>,
      <<"d","i","r","e","c","t","o","r">>,
      <<"c","a","s","t">>,
      <<"c","i","n","e","m","a">>,
      <<"s","c","r","e","e","n","i","n","g">>,
      <<"p","r","e","m","i","e","r","e">> }

(***************************************************************************)
(* The helpers of the relevance filter.                                    *)
(***************************************************************************)
\* what langdetect's detect does with a text: report English, report
\* another language, or raise
DetectOutcomes == {"en", "other", "raise"}

\* sum(1 for ch in txt if ord(ch) < 128)
AsciiCount(txt) == Cardinality({i \in 1..Len(txt) : IsAscii(txt[i])})

\* ascii_ratio > 0.9, with ascii_ratio = AsciiCount / max(1, len)
AsciiRatioAbove09(txt) == 10 * AsciiCount(txt) > 9 * Max(1, Len(txt))

\* is_english, had it returned False where detect raises
is_english_reject_on_raise(text, outcome) ==
    IF text = <<>> THEN FALSE
    ELSE LET txt == Strip(text)
         IN  IF Len(txt) >= MIN_TEXT_LEN
             THEN outcome = "en"
             ELSE AsciiRatioAbove09(txt)

\* outcome is what detect(txt) does if it is called
is_english(text, outcome) ==
    IF text = <<>> THEN FALSE
    ELSE LET txt == Strip(text)
         IN  IF Len(txt) >= MIN_TEXT_LEN /\ outcome # "raise"
             THEN outcome = "en"
             ELSE AsciiRatioAbove09(txt)

has_film_cue(lower) == ReSearch(FilmCues, lower)

\* any(tok.lower() in text_lower for tok in tokens)
title_has_token(title_lower, tokens) ==
    \E i \in 1..Len(tokens) : Contains(title_lower, Lower(tokens[i]))

\* should_exclude_by_negatives, had it returned True on every match
should_exclude_by_negatives_no_override(title_lower, negatives_regex, film_cue_present) ==
    IF negatives_regex = None THEN FALSE
    ELSE ReSearch(negatives_regex, title_lower)

should_exclude_by_negatives(title_lower, negatives_regex, film_cue_present) ==
    IF negatives_regex = None THEN FALSE
    ELSE IF ~ReSearch(negatives_regex, title_lower) THEN FALSE
    ELSE ~film_cue_present

(***************************************************************************)
(* Raw posts.                                                              *)
(***************************************************************************)
\* a created_utc: floor + half/2 seconds
Num(f, h) == [floor |-> f, half |-> h]

\* int(x): truncation toward zero
IntOf(x) == IF x.floor < 0 /\ x.half = 1 THEN x.floor + 1 ELSE x.floor

\* x < n for an integer n
NumLess(x, n) == x.floor < n

\* p.get(key, default)
Get(p, key, default) == IF key \in DOMAIN p THEN p[key] ELSE default

\* p.get("id") is truthy
HasId(p) == Get(p, "id", "") # ""

(***************************************************************************)
(* The pieces the texts of the modelled posts are made of, and the string  *)
(* each spells.                                                            *)
(***************************************************************************)
TitlePieces ==
    {" Barbie", " trailer", " doll", "s", "e-acute", "dash",
     " INDIANA JONES", " Box  Office"}
BodyPieces == {"barbie", "  I saw BARBIE and Oppenheimer  ", "e-acute x 15"}

PieceChars(w) ==
    CASE w = " Barbie" -> <<" ","B","a","r","b","i","e">>
      [] w = " trailer" -> <<" ","t","r","a","i","l","e","r">>
      [] w = " doll" -> <<" ","d","o","l","l">>
      [] w = "s" -> <<"s">>
      [] w = "e-acute" -> <<"U+00E9">>
      [] w = "dash" -> <<"U+2014">>
      [] w = " OPPENHEIMER" ->
            <<" ","O","P","P","E","N","H","E","I","M","E","R">>
      [] w = " INDIANA JONES" ->
            <<" ","I","N","D","I","A","N","A"," ","J","O","N","E","S">>
      [] w = " Box  Office" ->
            <<" ","B","o","x"," ","\t","O","f","f","i","c","e">>
      [] w = "barbie" -> <<"b","a","r","b","i","e">>
      [] w = "  I saw BARBIE and Oppenheimer  " ->
            <<" "," ","I"," ","s","a","w"," ","B","A","R","B","I","E"," ",
              "a","n","d"," ","O","p","p","e","n","h","e","i","m","e","r",
              " "," ">>
      [] w = "e-acute x 15" -> [i \in 1..15 |-> "U+00E9"]

\* the string a sequence of pieces spells
RECURSIVE Chars(_)
Chars(ws) == IF ws = <<>> THEN <<>> ELSE PieceChars(Head(ws)) \o Chars(Tail(ws))

(***************************************************************************)
(* build_rows.  The title, text, permalink and url columns of a row are    *)
(* left out: they are copied from the post and no later step reads them.   *)
(***************************************************************************)
created_of(p) == IntOf(Get(p, "created_utc", Num(0, 0)))
title_of(p) == Strip(Chars(Get(p, "title", <<>>)))
selftext_of(p) == Strip(Chars(Get(p, "selftext", <<>>)))
combined_of(p) == Strip(title_of(p) \o <<" ">> \o selftext_of(p))

\* lang_text = title if len(selftext) < MIN_TEXT_LEN else combined
lang_text_of(p) ==
    IF Len(selftext_of(p)) < MIN_TEXT_LEN THEN title_of(p) ELSE combined_of(p)

\* the boundary check, had it compared with start_utc - 1
PassesBoundary_late(cfg, p) == ~(created_of(p) < cfg.start_utc - 1)

\* the post is not skipped by the boundary check
PassesBoundary(cfg, p) == ~(created_of(p) < cfg.start_utc)

\* the token check, had it taken a token in the body without a film cue
PassesTokens_body_alone(cfg, p) ==
    LET title_lower == Lower(title_of(p))
    IN  IF ~title_has_token(title_lower, cfg.title_tokens)
        THEN title_has_token(Lower(selftext_of(p)), cfg.title_tokens)
        ELSE TRUE

\* the post is not skipped by the token check
PassesTokens(cfg, p) ==
    LET title_lower == Lower(title_of(p))
        film_cue == has_film_cue(title_lower)
    IN  IF ~title_has_token(title_lower, cfg.title_tokens)
        THEN LET body_lower == Lower(selftext_of(p))
             IN  film_cue /\ title_has_token(body_lower, cfg.title_tokens)
        ELSE TRUE

\* the post is not skipped by the negative keywords
PassesNegatives(cfg, p) ==
    LET title_lower == Lower(title_of(p))
    IN  ~should_exclude_by_negatives(title_lower, cfg.negative_title_regex,
                                     has_film_cue(title_lower))

\* build_rows reaches is_english with this post and is_english calls detect
DetectCalled(cfg, p) ==
    /\ PassesBoundary(cfg, p)
    /\ PassesTokens(cfg, p)
    /\ PassesNegatives(cfg, p)
    /\ lang_text_of(p) # <<>>
    /\ Len(Strip(lang_text_of(p))) >= MIN_TEXT_LEN

\* the body of the loop of build_rows: TRUE when a row is appended
Keeps(cfg, p, outcome) ==
    /\ PassesBoundary(cfg, p)
    /\ PassesTokens(cfg, p)
    /\ PassesNegatives(cfg, p)
    /\ is_english(lang_text_of(p), outcome)

RowOf(movie_key, p) ==
    [movie |-> movie_key,
     subreddit |-> Get(p, "subreddit", ""),
     id |-> Get(p, "id", ""),
     created_utc |-> created_of(p)]

\* outcomes[i] is what detect does for raw_posts[i]
build_rows(movie_key, cfg, raw_posts, outcomes) ==
    LET rows[n \in 0..Len(raw_posts)] ==
            IF n = 0 THEN <<>>
            ELSE IF Keeps(cfg, raw_posts[n], outcomes[n])
                 THEN Append(rows[n - 1], RowOf(movie_key, raw_posts[n]))
                 ELSE rows[n - 1]
    IN  rows[Len(raw_posts)]

\* the outcomes detect can have over one call of build_rows: one for each
\* post it is called for
OutcomesFor(cfg, raw_posts) ==
    LET S[n \in 0..Len(raw_posts)] ==
            IF n = 0 THEN {<<>>}
            ELSE {Append(o, x) :
                    o \in S[n - 1],
                    x \in (IF DetectCalled(cfg, raw_posts[n])
                           THEN DetectOutcomes
                           ELSE {"uncalled"})}
    IN  S[Len(raw_posts)]

(***************************************************************************)
(* collect_for_movie's  list({p.get("id"): p for p in all_posts            *)
(*                            if p.get("id")}.values()) :                  *)
(* a dict keeps a key at the place it was first inserted and keeps the     *)
(* value inserted last.                                                    *)
(***************************************************************************)
\* the de-duplication, had it kept the record seen first
dedupe_by_id_first_seen(posts_in) ==
    LET d[n \in 0..Len(posts_in)] ==
            IF n = 0 THEN <<>>
            ELSE LET p == posts_in[n]
                     prev == d[n - 1]
                 IN  IF ~HasId(p) THEN prev
                     ELSE IF \E k \in 1..Len(prev) : prev[k].id = p.id
                          THEN prev
                          ELSE Append(prev, p)
    IN  d[Len(posts_in)]

dedupe_by_id(posts_in) ==
    LET d[n \in 0..Len(posts_in)] ==
            IF n = 0 THEN <<>>
            ELSE LET p == posts_in[n]
                     prev == d[n - 1]
                 IN  IF ~HasId(p) THEN prev
                     ELSE IF \E k \in 1..Len(prev) : prev[k].id = p.id
                          THEN [prev EXCEPT
                                  ![CHOOSE k \in 1..Len(prev) :
                                        prev[k].id = p.id] = p]
                          ELSE Append(prev, p)
    IN  d[Len(posts_in)]

(***************************************************************************)
(* main's data frame operations.                                           *)
(***************************************************************************)
\* drop_duplicates(subset=["movie","id"]): the first of each group is kept
drop_duplicates(rows) ==
    LET keep(i) == \A j \in 1..(i - 1) :
                       ~(rows[j].movie = rows[i].movie /\ rows[j].id = rows[i].id)
        d[n \in 0..Len(rows)] ==
            IF n = 0 THEN <<>>
            ELSE IF keep(n) THEN Append(d[n - 1], rows[n]) ELSE d[n - 1]
    IN  d[Len(rows)]

\* the movie keys in the order of string comparison
MovieSorted ==
    <<"barbie", "indiana_jones", "mi7", "oppenheimer", "sound_of_freedom">>
MovieRank(m) == CHOOSE i \in 1..Len(MovieSorted) : MovieSorted[i] = m

\* the sort order, had created_utc been ascending
RowBefore_ascending(a, b) ==
    \/ MovieRank(a.movie) < MovieRank(b.movie)
    \/ a.movie = b.movie /\ a.created_utc < b.created_utc

\* a sorts before b by (movie ascending, created_utc descending)
RowBefore(a, b) ==
    \/ MovieRank(a.movie) < MovieRank(b.movie)
    \/ a.movie = b.movie /\ a.created_utc > b.created_utc

\* sort_values(by=["movie","created_utc"], ascending=[True, False]): pandas
\* sorts several keys with a stable sort, so r goes after every row that
\* does not sort after it
InsertRow(sorted, r) ==
    LET k == Cardinality({i \in 1..Len(sorted) : ~RowBefore(r, sorted[i])})
    IN  SubSeq(sorted, 1, k) \o <<r>> \o SubSeq(sorted, k + 1, Len(sorted))

sort_values(rows) ==
    LET s[n \in 0..Len(rows)] ==
            IF n = 0 THEN <<>> ELSE InsertRow(s[n - 1], rows[n])
    IN  s[Len(rows)]

(***************************************************************************)
(* summarize_rates.  A quotient is kept as a fraction in lowest terms.     *)
(***************************************************************************)
RECURSIVE GCD(_, _)
GCD(a, b) == IF b = 0 THEN a ELSE GCD(b, a % b)

\* a / b, for a >= 0 and b > 0
Quotient(a, b) == [num |-> a \div GCD(a, b), den |-> b \div GCD(a, b)]

SetMax(S) == CHOOSE x \in S : \A y \in S : y <= x

\* the column, had the day begun been counted
days_since_start_of_begun(m, now_sec) ==
    Max(1, (now_sec - MOVIES[m].start_utc) \div SECONDS_PER_DAY + 1)

\* the column df_full["days_since_start"]
days_since_start_of(m, now_sec) ==
    Max(1, (now_sec - MOVIES[m].start_utc) \div SECONDS_PER_DAY)

summarize_rates(df_full, now_sec) ==
    IF df_full = <<>>
    THEN [by_movie |-> <<>>, by_movie_sub |-> <<>>]
    ELSE
    LET idx == 1..Len(df_full)
        group(m) == {i \in idx : df_full[i].movie = m}
        count(m) == Cardinality(group(m))
        days(m) == SetMax({days_since_start_of(df_full[i].movie, now_sec) :
                              i \in group(m)})
    IN  [by_movie |->
            [m \in {df_full[i].movie : i \in idx} |->
                [count |-> count(m),
                 days_since_start |-> days(m),
                 posts_per_day_since_start |-> Quotient(count(m), days(m))]],
         by_movie_sub |->
            [ms \in {<<df_full[i].movie, df_full[i].subreddit>> : i \in idx} |->
                Cardinality({i \in idx : /\ df_full[i].movie = ms[1]
                                         /\ df_full[i].subreddit = ms[2]})]]

(***************************************************************************)
(* The state of a run of main.                                             *)
(***************************************************************************)
VARIABLES
    pc,          \* where main is: "fetch", "build", "finish" or "done"
    mi,          \* main's loop: the index in MovieKeys of movie_key
    si,          \* collect_for_movie's loop: the index in SUBREDDITS of sr
    after,       \* fetch_subreddit_posts: the cursor
    posts,       \* fetch_subreddit_posts: the records accumulated
    all_posts,   \* collect_for_movie: the records of the subreddits so far
    all_rows,    \* main: the rows of the topics so far
    fs,          \* the files written, by name
    stdout,      \* what main printed at its end
    fetchLog,    \* the requests of the current or last fetch, with responses
    fetchDone,   \* the fetch of fetchLog has returned
    returned,    \* what the last fetch that returned has returned
    fetched,     \* the number of records received in this run
    built,       \* the last topic built: records, unique posts, rows
    summary      \* the calls of summarize_rates: argument, clock, result

vars == <<pc, mi, si, after, posts, all_posts, all_rows, fs, stdout,
          fetchLog, fetchDone, returned, fetched, built, summary>>

\* Python's None and the cursors a response can carry
NoCursor == "None"
Cursors == {NoCursor, "", "t3_x"}
Truthy(c) == c # NoCursor /\ c # ""

NoBuild == [movie |-> "", all_posts |-> <<>>, raw |-> <<>>,
            outcomes |-> <<>>, rows |-> <<>>]

\* what every run starts from, but for the place it is followed from
InitRun ==
    /\ si = 1
    /\ after = NoCursor
    /\ posts = <<>>
    /\ fs = <<>>
    /\ stdout = <<>>
    /\ fetchLog = <<>>
    /\ fetchDone = FALSE
    /\ returned = <<>>
    /\ fetched = 0
    /\ built = NoBuild
    /\ summary = <<>>

(***************************************************************************)
(* fetch_subreddit_posts, one page request per step.                       *)
(***************************************************************************)
\* params, with "after" only when the cursor is truthy; q stands for the
\* topic's query
RequestParams(subreddit, q, cursor) ==
    IF Truthy(cursor)
    THEN [subreddit |-> subreddit, q |-> q, after |-> cursor]
    ELSE [subreddit |-> subreddit, q |-> q]

\* [c["data"].get("created_utc", 0) for c in children]
CreatedTimes(children) ==
    {Get(children[i], "created_utc", Num(0, 0)) : i \in 1..Len(children)}

\* the breaks, without the one on the age of the page
PageStops_no_age(children, next, start_utc) ==
    \/ children = <<>>
    \/ ~Truthy(next)

\* the three breaks after a response that was received and parsed
PageStops(children, next, start_utc) ==
    \/ children = <<>>
    \/ ~Truthy(next)
    \/ \E t \in CreatedTimes(children) : NumLess(t, start_utc)

\* posts after a page: nothing is added by the break on an empty page
PostsAfterPage(acc, children) == acc \o children

\* posts after a failure, had the records accumulated been dropped
PostsAfterFailure_dropped(acc) == <<>>

\* posts after the break in the except clause
PostsAfterFailure(acc) == acc

\* the return of fetch_subreddit_posts into collect_for_movie's loop
FetchReturns(result) ==
    /\ returned' = result
    /\ all_posts' = all_posts \o result
    /\ posts' = <<>>
    /\ after' = NoCursor
    /\ fetchDone' = TRUE
    /\ IF si = Len(SUBREDDITS)
       THEN pc' = "build" /\ si' = 1
       ELSE pc' = "fetch" /\ si' = si + 1

LogRequest(response) ==
    fetchLog' = (IF fetchDone THEN <<>> ELSE fetchLog) \o
                <<[request |-> RequestParams(SUBREDDITS[si], MovieKeys[mi], after),
                   response |-> response]>>

\* the request is answered with a page of records and a cursor
FetchPage(children, next) ==
    /\ pc = "fetch"
    /\ fetched + Len(children) <= MaxFetched
    /\ LogRequest([ok |-> TRUE, children |-> children, after |-> next])
    /\ Len(fetchLog') >= MaxPages
          => PageStops(children, next, MOVIES[MovieKeys[mi]].start_utc)
    /\ fetched' = fetched + Len(children)
    /\ IF PageStops(children, next, MOVIES[MovieKeys[mi]].start_utc)
       THEN FetchReturns(PostsAfterPage(posts, children))
       ELSE /\ posts' = PostsAfterPage(posts, children)
            /\ after' = next
            /\ fetchDone' = FALSE
            /\ UNCHANGED <<pc, si, returned, all_posts>>
    /\ UNCHANGED <<mi, all_rows, fs, stdout, built, summary>>

\* requests.get, raise_for_status or r.json() raises
FetchFail ==
    /\ pc = "fetch"
    /\ LogRequest([ok |-> FALSE, children |-> <<>>, after |-> NoCursor])
    /\ FetchReturns(PostsAfterFailure(posts))
    /\ UNCHANGED <<mi, all_rows, fs, stdout, fetched, built, summary>>

(***************************************************************************)
(* The end of collect_for_movie and build_rows, for one topic.             *)
(***************************************************************************)
BuildRows ==
    /\ pc = "build"
    /\ LET movie_key == MovieKeys[mi]
           cfg == MOVIES[movie_key]
           raw == dedupe_by_id(all_posts)
       IN  \E outcomes \in OutcomesFor(cfg, raw) :
               LET rows == build_rows(movie_key, cfg, raw, outcomes)
               IN  /\ built' = [movie |-> movie_key, all_posts |-> all_posts,
                                raw |-> raw, outcomes |-> outcomes,
                                rows |-> rows]
                   /\ all_rows' = all_rows \o rows
    /\ all_posts' = <<>>
    /\ IF mi = Len(MovieKeys)
       THEN pc' = "finish" /\ mi' = mi
       ELSE pc' = "fetch" /\ mi' = mi + 1
    /\ UNCHANGED <<si, after, posts, fs, stdout, fetchLog, fetchDone,
                   returned, fetched, summary>>

(***************************************************************************)
(* The end of main.                                                        *)
(***************************************************************************)
\* the early exit of main, had it come after the writing of the files
MainNoRows_after_writing ==
    /\ pc = "finish"
    /\ all_rows = <<>>
    /\ fs' = (FULL_TSV :> <<>>) @@ (COVERAGE_SUMMARY :> summarize_rates(<<>>, 0))
    /\ stdout' = Append(stdout, "No rows collected.")
    /\ pc' = "done"
    /\ UNCHANGED <<mi, si, after, posts, all_posts, all_rows, fetchLog,
                   fetchDone, returned, fetched, built, summary>>

MainNoRows ==
    /\ pc = "finish"
    /\ all_rows = <<>>
    /\ stdout' = Append(stdout, "No rows collected.")
    /\ pc' = "done"
    /\ UNCHANGED <<mi, si, after, posts, all_posts, all_rows, fs, fetchLog,
                   fetchDone, returned, fetched, built, summary>>

\* now_sec is the clock read by summarize_rates
MainWrite(now_sec) ==
    /\ pc = "finish"
    /\ all_rows # <<>>
    /\ LET df_full == sort_values(drop_duplicates(all_rows))
           tables == summarize_rates(df_full, now_sec)
       IN  /\ fs' = (FULL_TSV :> df_full) @@ (COVERAGE_SUMMARY :> tables) @@ fs
           /\ summary' = Append(summary, [df_full |-> df_full,
                                          now_sec |-> now_sec,
                                          tables |-> tables])
    /\ stdout' = stdout \o <<"Wrote: " \o FULL_TSV, "Wrote: " \o COVERAGE_SUMMARY>>
    /\ pc' = "done"
    /\ UNCHANGED <<mi, si, after, posts, all_posts, all_rows, fetchLog,
                   fetchDone, returned, fetched, built>>

(***************************************************************************)
(* The records the source returns in a modelled run.                       *)
(***************************************************************************)
\* "Barbie trailer" and "Barbie OPPENHEIMER"
t_Barbie_trailer == <<" Barbie", " trailer">>
t_Barbie_Oppenheimer == <<" Barbie", " OPPENHEIMER">>

\* a post, and the same post as another listing returns it later
PostA1 == [id |-> "a", subreddit |-> "movies",
           created_utc |-> Num(START_UTC + 1, 0),
           title |-> t_Barbie_trailer, selftext |-> <<>>]
PostA2 == [id |-> "a", subreddit |-> "flicks",
           created_utc |-> Num(START_UTC + 2, 0),
           title |-> t_Barbie_Oppenheimer, selftext |-> <<>>]
\* half a second older than the start of every topic
PostB == [id |-> "b", subreddit |-> "flicks",
          created_utc |-> Num(START_UTC - 1, 1),
          title |-> t_Barbie_trailer, selftext |-> <<>>]
\* as new as PostA1, about two topics
PostC == [id |-> "c", subreddit |-> "truefilm",
          created_utc |-> Num(START_UTC + 1, 0),
          title |-> t_Barbie_Oppenheimer, selftext |-> <<>>]
\* newer, and without an id
PostN == [subreddit |-> "flicks",
          created_utc |-> Num(START_UTC + 2, 0),
          title |-> t_Barbie_trailer, selftext |-> <<>>]

PostPool == {PostA1, PostA2, PostB, PostC, PostN}

\* the pages of at most n records
Pages(n) == UNION {[1..k -> PostPool] : k \in 0..n}

\* the clock at the end of a run
Nows == {START_UTC - SECONDS_PER_DAY, START_UTC + 3600,
         START_UTC + SECONDS_PER_DAY - 1, START_UTC + SECONDS_PER_DAY,
         START_UTC + 10 * SECONDS_PER_DAY,
         START_UTC + 11 * SECONDS_PER_DAY - 1}

(***************************************************************************)
(* A whole run of main.                                                    *)
(***************************************************************************)
Init ==
    /\ pc = "fetch"
    /\ mi = 1
    /\ all_posts = <<>>
    /\ all_rows = <<>>
    /\ InitRun

Next ==
    \/ /\ pc = "fetch"
       /\ \E children \in Pages(IF MaxPageLen <= MaxFetched - fetched
                                 THEN MaxPageLen
                                 ELSE MaxFetched - fetched) :
              \E next \in Cursors : FetchPage(children, next)
    \/ FetchFail
    \/ BuildRows
    \/ MainNoRows
    \/ \E now_sec \in Nows : MainWrite(now_sec)

Spec == Init /\ [][Next]_vars

(***************************************************************************)
(* The relevance filter on generated posts: a run is followed from the     *)
(* point where the records of one topic have been collected and no earlier *)
(* topic has produced a row.                                               *)
(***************************************************************************)
Titles == UNION {[1..n -> TitlePieces] : n \in 0..MaxWords}
Bodies == {<<w>> : w \in BodyPieces}
Createds == {Num(START_UTC - 1, 1), Num(START_UTC, 0), Num(START_UTC + 1, 0)}

\* a post with or without a title, a selftext and a created_utc
GeneratedPosts ==
    { [id |-> "a", subreddit |-> "movies"] @@ t @@ b @@ c :
        t \in {<<>>} \cup {[title |-> x] : x \in Titles},
        b \in {<<>>} \cup {[selftext |-> x] : x \in Bodies},
        c \in {<<>>} \cup {[created_utc |-> x] : x \in Createds} }

InitFilter ==
    /\ pc = "build"
    /\ mi \in 1..Len(MovieKeys)
    /\ all_posts \in {<<p>> : p \in GeneratedPosts}
    /\ all_rows = <<>>
    /\ InitRun

NextFilter ==
    \/ BuildRows
    \/ MainNoRows
    \/ \E now_sec \in Nows : MainWrite(now_sec)

SpecFilter == InitFilter /\ [][NextFilter]_vars

(***************************************************************************)
(* The end of main on generated rows: a run is followed from the point     *)
(* where every topic has been built.  The rows of a topic are in the order *)
(* build_rows emits them, oldest first here, and have distinct ids.        *)
(***************************************************************************)
GeneratedRows(movie_key, n) ==
    [i \in 1..n |->
        [movie |-> movie_key,
         subreddit |-> SUBREDDITS[(i % Len(SUBREDDITS)) + 1],
         id |-> ToString(i),
         created_utc |-> START_UTC + i]]

InitRates ==
    /\ pc = "finish"
    /\ mi = Len(MovieKeys)
    /\ all_posts = <<>>
    /\ \E n \in 0..2, k \in 0..MaxCount :
           all_rows = GeneratedRows("oppenheimer", n) \o GeneratedRows("barbie", k)
    /\ InitRun

NextRates ==
    \/ MainNoRows
    \/ \E now_sec \in Nows : MainWrite(now_sec)

SpecRates == InitRates /\ [][NextRates]_vars

(***************************************************************************)
(* What the claims speak of, stated apart from the definitions above.      *)
(***************************************************************************)
\* the records of the pages of a log, in the order they were received
RECURSIVE ReceivedIn(_)
ReceivedIn(log) ==
    IF log = <<>> THEN <<>>
    ELSE ReceivedIn(SubSeq(log, 1, Len(log) - 1)) \o
         (IF log[Len(log)].response.ok
          THEN log[Len(log)].response.children
          ELSE <<>>)

\* the created_utc of a record, 0 when it has none
CreatedUtc(p) == IF "created_utc" \in DOMAIN p THEN p.created_utc ELSE Num(0, 0)

\* the created_utc t is before the whole second n
Earlier(t, n) == t.floor < n

\* a least element of a non-empty set of created_utc
Oldest(ts) ==
    CHOOSE t \in ts : \A u \in ts :
        t.floor < u.floor \/ (t.floor = u.floor /\ t.half <= u.half)

\* a page after which the fetch stops
StoppingPage(response, start_utc) ==
    \/ response.children = <<>>
    \/ response.after \in {NoCursor, ""}
    \/ Earlier(Oldest({CreatedUtc(response.children[i]) :
                          i \in 1..Len(response.children)}), start_utc)

LastEntry(log) == log[Len(log)]

\* text contains one of the tokens, whatever the case of the letters
Mentions(text, tokens) ==
    \E n \in 1..Len(tokens) :
        \E i \in 1..(Len(text) - Len(tokens[n]) + 1) :
            \A k \in 1..Len(tokens[n]) :
                LowerChar(text[i + k - 1]) = LowerChar(tokens[n][k])

\* the title and the body of a raw post, trimmed
TitleText(p) == Strip(Chars(IF "title" \in DOMAIN p THEN p.title ELSE <<>>))
BodyText(p) == Strip(Chars(IF "selftext" \in DOMAIN p THEN p.selftext ELSE <<>>))

FilmCueInTitle(p) == has_film_cue(Lower(TitleText(p)))

\* the topical relevance of section 4.2, step 2
Relevant(cfg, p) ==
    \/ Mentions(TitleText(p), cfg.title_tokens)
    \/ FilmCueInTitle(p) /\ Mentions(BodyText(p), cfg.title_tokens)

NegativeInTitle(cfg, p) ==
    /\ cfg.negative_title_regex # None
    /\ ReSearch(cfg.negative_title_regex, Lower(TitleText(p)))

\* the text the language check tests
TestedText(p) ==
    IF Len(BodyText(p)) < MIN_TEXT_LEN
    THEN TitleText(p)
    ELSE TitleText(p) \o <<" ">> \o BodyText(p)

\* more than nine characters in ten are ASCII
MostlyAscii(text) ==
    10 * Cardinality({i \in 1..Len(text) : text[i] \notin NonAscii}) > 9 * Len(text)

\* the verdict of the language check when detection does outcome
EnglishVerdict(text, outcome) ==
    IF Len(text) < MIN_TEXT_LEN \/ outcome = "raise"
    THEN MostlyAscii(text)
    ELSE outcome = "en"

\* the i-th unique post of the topic built last, and whether it has a row
BuiltPost(i) == built.raw[i]
BuiltCfg == MOVIES[built.movie]
BuiltKept(i) == \E k \in 1..Len(built.rows) : built.rows[k].id = BuiltPost(i).id
BuiltIdx == IF built.movie = "" THEN {} ELSE 1..Len(built.raw)

\* the post passes the language check with the outcome detection had for it
BuiltEnglish(i) == EnglishVerdict(TestedText(BuiltPost(i)), built.outcomes[i])

InBoundary(cfg, p) == ~Earlier(CreatedUtc(p), cfg.start_utc)

(***************************************************************************)
(* C1.  A fetch sends its first request without a cursor and every later   *)
(* request with the cursor of the response before it; every page before    *)
(* the last one was received and is not a stopping page (it has records,   *)
(* it has a cursor, and its oldest created_utc is not before start_utc),   *)
(* so no request follows a stopping page; a fetch that has returned ended  *)
(* on a stopping page or on a failure and returned exactly the records of  *)
(* the pages received, in order, the records older than start_utc          *)
(* included.                                                               *)
(***************************************************************************)
C1_FetchPaging ==
    LET n == Len(fetchLog)
        start(e) == MOVIES[e.request.q].start_utc
        stops(e) == StoppingPage(e.response, start(e))
    IN  /\ n > 0 => "after" \notin DOMAIN fetchLog[1].request
        /\ \A i \in 1..(n - 1) :
              /\ fetchLog[i].response.ok
              /\ ~stops(fetchLog[i])
              /\ "after" \in DOMAIN fetchLog[i + 1].request
              /\ fetchLog[i + 1].request.after = fetchLog[i].response.after
              /\ fetchLog[i + 1].request.subreddit = fetchLog[i].request.subreddit
              /\ fetchLog[i + 1].request.q = fetchLog[i].request.q
        /\ fetchDone =>
              /\ n > 0
              /\ ~LastEntry(fetchLog).response.ok \/ stops(LastEntry(fetchLog))
              /\ returned = ReceivedIn(fetchLog)
        /\ (~fetchDone /\ n > 0) =>
              /\ LastEntry(fetchLog).response.ok
              /\ ~stops(LastEntry(fetchLog))
              /\ posts = ReceivedIn(fetchLog)

\* a fetch of two pages that stopped on a page with a cursor whose record is
\* older than start_utc, and returned that record too
C1_Witness ==
    /\ fetchDone
    /\ Len(fetchLog) = 2
    /\ fetchLog[2].response.ok
    /\ fetchLog[2].response.after = "t3_x"
    /\ fetchLog[2].request.after = "t3_x"
    /\ Len(returned) = 2
    /\ Earlier(CreatedUtc(returned[2]), START_UTC)
    /\ ~Earlier(CreatedUtc(returned[1]), START_UTC)

C3_Boundary ==
    /\ \A i \in BuiltIdx : ~InBoundary(BuiltCfg, BuiltPost(i)) => ~BuiltKept(i)
    /\ \A k \in 1..Len(all_rows) :
          all_rows[k].created_utc >= MOVIES[all_rows[k].movie].start_utc
    /\ FULL_TSV \in DOMAIN fs =>
          \A k \in 1..Len(fs[FULL_TSV]) :
              fs[FULL_TSV][k].created_utc >= MOVIES[fs[FULL_TSV][k].movie].start_utc

\* a post half a second too old that passes every other check, and no row
C3_Witness ==
    /\ built.movie = "barbie"
    /\ Len(built.raw) = 1
    /\ CreatedUtc(BuiltPost(1)) = Num(START_UTC - 1, 1)
    /\ Relevant(BuiltCfg, BuiltPost(1))
    /\ ~NegativeInTitle(BuiltCfg, BuiltPost(1))
    /\ \A o \in DetectOutcomes : EnglishVerdict(TestedText(BuiltPost(1)), o)
    /\ built.rows = <<>>

(***************************************************************************)
(* C4.  The unique posts of a topic are exactly the ids its fetches        *)
(* returned, each once, each with the record seen last for it, and never a *)
(* record without an id; a topic has at most one row for an id and the row *)
(* is made from that last record; no row has an empty id, and no two rows  *)
(* collected or written to the dataset have the same (movie, id).          *)
(***************************************************************************)
C4_Dedup ==
    LET ap == built.all_posts
        withId == {i \in 1..Len(ap) : "id" \in DOMAIN ap[i] /\ ap[i].id # ""}
        lastOf(x) == CHOOSE i \in withId :
                        /\ ap[i].id = x
                        /\ \A j \in withId : ap[j].id = x => j <= i
        unique(rows) == \A i, j \in 1..Len(rows) :
                            (rows[i].movie = rows[j].movie /\ rows[i].id = rows[j].id)
                                => i = j
    IN  /\ Len(built.raw) = Cardinality({ap[i].id : i \in withId})
        /\ \A i \in withId :
              \E k \in 1..Len(built.raw) : built.raw[k] = ap[lastOf(ap[i].id)]
        /\ \A k \in 1..Len(built.rows) :
              \E i \in withId :
                  /\ built.rows[k].id = ap[i].id
                  /\ built.rows[k].subreddit = ap[lastOf(ap[i].id)].subreddit
                  /\ built.rows[k].created_utc = ap[lastOf(ap[i].id)].created_utc.floor
        /\ unique(built.rows)
        /\ \A k \in 1..Len(all_rows) : all_rows[k].id # ""
        /\ unique(all_rows)
        /\ FULL_TSV \in DOMAIN fs => unique(fs[FULL_TSV])

\* one id was returned twice with different records, and the topic has one
\* row, made from the second record
C4_Witness ==
    /\ built.movie = "barbie"
    /\ built.all_posts = <<PostA1, PostA2>>
    /\ built.raw = <<PostA2>>
    /\ Len(built.rows) = 1
    /\ built.rows[1].subreddit = "flicks"

(***************************************************************************)
(* C5.  In the dataset written, of two consecutive rows either the first   *)
(* one's movie sorts strictly before the second one's, or they have the    *)
(* same movie and the first one's created_utc is not less; rows with the   *)
(* same movie and created_utc are in the order of the rows collected; and  *)
(* the dataset has the rows collected, no more and no fewer.               *)
(***************************************************************************)
C5_SortInvariant ==
    FULL_TSV \in DOMAIN fs =>
        LET df == fs[FULL_TSV]
            pos(r) == CHOOSE k \in 1..Len(all_rows) : all_rows[k] = r
        IN  /\ \A i \in 1..(Len(df) - 1) :
                  \/ MovieRank(df[i].movie) < MovieRank(df[i + 1].movie)
                  \/ /\ df[i].movie = df[i + 1].movie
                     /\ df[i].created_utc >= df[i + 1].created_utc
            /\ Len(df) = Len(all_rows)
            /\ {df[i] : i \in 1..Len(df)} = {all_rows[i] : i \in 1..Len(all_rows)}
            /\ \A i, j \in 1..Len(df) :
                  ( /\ i < j
                    /\ df[i].movie = df[j].movie
                    /\ df[i].created_utc = df[j].created_utc )
                      => pos(df[i]) < pos(df[j])

\* two rows of one topic were collected oldest first, and written newest
\* first
C5_Witness ==
    /\ FULL_TSV \in DOMAIN fs
    /\ Len(all_rows) = 2
    /\ all_rows[1].movie = all_rows[2].movie
    /\ all_rows[1].created_utc < all_rows[2].created_utc
    /\ fs[FULL_TSV] = <<all_rows[2], all_rows[1]>>

(***************************************************************************)
(* C6.  A post inside the time boundary has a row only if its title        *)
(* contains a token of the topic, or its title contains a film cue and its *)
(* body a token; and a post inside the boundary for which that holds has a *)
(* row when it also passes the negative keywords and the language check.   *)
(***************************************************************************)
C6_Relevance ==
    \A i \in BuiltIdx :
        InBoundary(BuiltCfg, BuiltPost(i)) =>
            /\ BuiltKept(i) => Relevant(BuiltCfg, BuiltPost(i))
            /\ ( /\ Relevant(BuiltCfg, BuiltPost(i))
                 /\ ~(NegativeInTitle(BuiltCfg, BuiltPost(i))
                        /\ ~FilmCueInTitle(BuiltPost(i)))
                 /\ BuiltEnglish(i) )
                  => BuiltKept(i)

\* a row for a post with no token in its title, a film cue in its title and
\* a token in its body
C6_Witness ==
    /\ built.movie = "barbie"
    /\ Len(built.raw) = 1
    /\ ~Mentions(TitleText(BuiltPost(1)), BuiltCfg.title_tokens)
    /\ FilmCueInTitle(BuiltPost(1))
    /\ Mentions(BodyText(BuiltPost(1)), BuiltCfg.title_tokens)
    /\ Len(built.rows) = 1

(***************************************************************************)
(* C7.  A post whose title matches the negative pattern of its topic and   *)
(* contains a film cue has a row if it passes the boundary, the relevance  *)
(* and the language checks; a post whose title matches the pattern and     *)
(* contains no film cue has no row; and under a topic without a negative   *)
(* pattern a post that passes the other three checks has a row.            *)
(***************************************************************************)
C7_NegativeOverride ==
    \A i \in BuiltIdx :
        LET p == BuiltPost(i)
            others == /\ InBoundary(BuiltCfg, p)
                      /\ Relevant(BuiltCfg, p)
                      /\ BuiltEnglish(i)
        IN  /\ (NegativeInTitle(BuiltCfg, p) /\ FilmCueInTitle(p) /\ others)
                  => BuiltKept(i)
            /\ (NegativeInTitle(BuiltCfg, p) /\ ~FilmCueInTitle(p))
                  => ~BuiltKept(i)
            /\ (BuiltCfg.negative_title_regex = None /\ others) => BuiltKept(i)

\* a row for a post with a negative keyword and a film cue in its title
C7_Witness ==
    /\ built.movie = "barbie"
    /\ Len(built.raw) = 1
    /\ NegativeInTitle(BuiltCfg, BuiltPost(1))
    /\ FilmCueInTitle(BuiltPost(1))
    /\ Len(built.rows) = 1

(***************************************************************************)
(* C8.  For a post that reaches the language check, the text tested is the *)
(* title when the body has fewer than 15 characters and the title, a space *)
(* and the body otherwise; detection is run exactly when that text has at  *)
(* least 15 characters; the post has a row exactly when, the text being    *)
(* shorter or detection raising, more than nine tenths of its characters   *)
(* are ASCII, or else detection reports English.  The same verdict is what *)
(* is_english gives for the text of every post with a title.               *)
(***************************************************************************)
C8_Language ==
    \A i \in BuiltIdx :
        LET p == BuiltPost(i)
            text == TestedText(p)
            reaches == /\ InBoundary(BuiltCfg, p)
                       /\ Relevant(BuiltCfg, p)
                       /\ ~(NegativeInTitle(BuiltCfg, p) /\ ~FilmCueInTitle(p))
        IN  /\ reaches =>
                  /\ (built.outcomes[i] = "uncalled") <=> (Len(text) < MIN_TEXT_LEN)
                  /\ BuiltKept(i) <=> EnglishVerdict(text, built.outcomes[i])
            /\ TitleText(p) # <<>> =>
                  \A o \in DetectOutcomes :
                      is_english(lang_text_of(p), o) = EnglishVerdict(text, o)

\* detection raised on a text of 15 characters or more, and the post has a
\* row because the text is ASCII
C8_Witness ==
    /\ built.movie # ""
    /\ Len(built.raw) = 1
    /\ Len(TestedText(BuiltPost(1))) >= MIN_TEXT_LEN
    /\ built.outcomes[1] = "raise"
    /\ Len(built.rows) = 1

(***************************************************************************)
(* C9.  No file is written before main ends; when main ends without a row  *)
(* collected, no file has been written, summarize_rates has not been       *)
(* called, and the one thing reported is that no rows were collected.      *)
(***************************************************************************)
C9_EmptyRun ==
    /\ pc # "done" => (fs = <<>> /\ summary = <<>> /\ stdout = <<>>)
    /\ (pc = "done" /\ all_rows = <<>>) =>
          /\ DOMAIN fs = {}
          /\ summary = <<>>
          /\ stdout = <<"No rows collected.">>

\* a run that fetched records, kept none of them and has ended
C9_Witness ==
    /\ pc = "done"
    /\ all_rows = <<>>
    /\ fetched > 0

(***************************************************************************)
(* C10.  The summary of a dataset has, for every topic with a row, the     *)
(* number of its rows as count, max(1, floor((now - start_time) / 86400))  *)
(* as days_since_start, which is at least 1, and count / days_since_start  *)
(* as rate; 25 rows ten days after the start give 10 days and a rate of    *)
(* 5/2; and the counts by (topic, subreddit) of a topic add up to its      *)
(* count.  The summary is what the summary file holds.                     *)
(***************************************************************************)
RECURSIVE SumOver(_, _)
SumOver(f, S) ==
    IF S = {} THEN 0
    ELSE LET x == CHOOSE y \in S : TRUE IN f[x] + SumOver(f, S \ {x})

\* floor(x / 86400), for the clocks of Nows
WholeDays(x) ==
    CHOOSE d \in -2..12 : d * SECONDS_PER_DAY <= x /\ x < (d + 1) * SECONDS_PER_DAY

C10_Rates ==
    /\ Len(summary) <= 1
    /\ \A n \in 1..Len(summary) :
        LET df == summary[n].df_full
            now == summary[n].now_sec
            by_movie == summary[n].tables.by_movie
            by_movie_sub == summary[n].tables.by_movie_sub
        IN  /\ df = fs[FULL_TSV]
            /\ fs[COVERAGE_SUMMARY] = summary[n].tables
            /\ DOMAIN by_movie = {df[i].movie : i \in 1..Len(df)}
            /\ \A m \in DOMAIN by_movie :
                  LET e == by_movie[m]
                      elapsed == now - MOVIES[m].start_utc
                  IN  /\ e.count = Cardinality({i \in 1..Len(df) : df[i].movie = m})
                      /\ e.days_since_start = Max(1, WholeDays(elapsed))
                      /\ e.days_since_start >= 1
                      /\ e.posts_per_day_since_start.den > 0
                      /\ e.posts_per_day_since_start.num * e.days_since_start
                            = e.count * e.posts_per_day_since_start.den
                      /\ (e.count = 25 /\ elapsed = 10 * SECONDS_PER_DAY) =>
                            /\ e.days_since_start = 10
                            /\ e.posts_per_day_since_start = [num |-> 5, den |-> 2]
                      /\ SumOver(by_movie_sub,
                                 {ms \in DOMAIN by_movie_sub : ms[1] = m}) = e.count

\* 25 rows of a topic summarised ten days after its start
C10_Witness ==
    /\ Len(summary) = 1
    /\ summary[1].now_sec = START_UTC + 10 * SECONDS_PER_DAY
    /\ "barbie" \in DOMAIN summary[1].tables.by_movie
    /\ summary[1].tables.by_movie["barbie"].count = 25
    /\ summary[1].tables.by_movie["barbie"].days_since_start = 10

====
